---- MODULE Spec2Model ----
(***************************************************************************)
(* A model of Black_Hole_103.py / Black_Hole_104.py: the byte transform    *)
(* pipeline (XOR mask, leading-zero header), the dictionary builder and    *)
(* loader, the tiered text tokenizer with its token stream codec, and the  *)
(* compress_text / decompress_binary operations.                           *)
(*                                                                         *)
(* Bytes are integers 0..255, byte strings are sequences of bytes, text is *)
(* a sequence of code points, a dictionary is a set of <<entry, id>>       *)
(* pairs wrapped in a record that can also stand for Python's None.        *)
(***************************************************************************)
EXTENDS Integers, Sequences, FiniteSets, TLC

VARIABLES
    mode,            \* which part of the program the behaviour exercises
    pc,              \* the last step taken
    data,            \* bytes part: the original byte string
    buf,             \* bytes part: the byte string after the functions applied
    applied,         \* bytes part: names of the functions applied to data, in order
    text,            \* the input text
    corpus,          \* the training corpus each tier's dictionary file was built from
    files,           \* words.txt, lines.txt and sentences.txt on disk
    word_dict,       \* the three dictionaries as returned by load_dictionary
    line_dict,
    sent_dict,
    encoded,         \* the token stream produced by the encoder or handed to the decoder
    decoded,         \* the decoder's result: [ok, text]
    compressed_file, \* the output file of compress_text, the input of decompress_binary
    restored_file,   \* the output file of decompress_binary
    load_failed,     \* the tiers whose load_dictionary returned None in the last operation
    wrote,           \* whether the last operation wrote its output file
    codec_ran,       \* whether the encoder / decoder returned a result in the last operation
    dictionary,      \* DictionaryCompressor: self.dictionary, a set of words
    fp_input,        \* DictionaryCompressor: the text file given to compress_file
    fp_compressed,   \* DictionaryCompressor: the output file of compress_file
    fp_restored      \* DictionaryCompressor: the output file of decompress_file

bytesVars == <<data, buf, applied>>

textVars == <<text, corpus, files, word_dict, line_dict, sent_dict, encoded, decoded>>

opsVars == <<compressed_file, restored_file, load_failed, wrote, codec_ran>>

fpVars == <<dictionary, fp_input, fp_compressed, fp_restored>>

vars == <<mode, pc, bytesVars, textVars, opsVars, fpVars>>

(***************************************************************************)
(* Bounds of the model.                                                    *)
(***************************************************************************)
MaxZeros == 33

MaxTail == 2

ByteSample == {0, 1, 255}

Min(a, b) == IF a < b THEN a ELSE b

RECURSIVE SeqsUpTo(_, _)
SeqsUpTo(S, n) ==
    IF n = 0 THEN {<< >>}
    ELSE LET shorter == SeqsUpTo(S, n - 1)
         IN  shorter \cup {Append(s, x) : s \in shorter, x \in S}

Zeros(n) == [i \in 1..n |-> 0]

(***************************************************************************)
(* Byte helpers.                                                           *)
(***************************************************************************)
RECURSIVE XorBits(_, _, _)
XorBits(a, b, n) ==
    IF n = 0 THEN 0
    ELSE (((a % 2) + (b % 2)) % 2) + 2 * XorBits(a \div 2, b \div 2, n - 1)

\* b ^ m on one byte
Xor8(a, b) == XorBits(a, b, 8)

\* a mutant of Xor8: b | m instead of b ^ m
RECURSIVE OrBits(_, _, _)
OrBits(a, b, n) ==
    IF n = 0 THEN 0
    ELSE (IF (a % 2) + (b % 2) > 0 THEN 1 ELSE 0) + 2 * OrBits(a \div 2, b \div 2, n - 1)

Or8(a, b) == OrBits(a, b, 8)

\* data[lo:hi] of Python (0-based, hi exclusive, clipped to the buffer)
Slice(s, lo, hi) ==
    LET l == Min(lo, Len(s))
        h == Min(hi, Len(s))
    IN  IF h <= l THEN << >> ELSE SubSeq(s, l + 1, h)

\* Black_Hole_103.transform_with_pattern: bytearray([b ^ 0xFF for b in data])
transform_with_pattern_or(d) == [i \in 1..Len(d) |-> Or8(d[i], 255)]

transform_with_pattern(d) == [i \in 1..Len(d) |-> Xor8(d[i], 255)]

\* Black_Hole_104.transform_with_pattern: the same mask, applied chunk by chunk
chunk_size == 4

RECURSIVE transform_chunks(_, _)
transform_chunks(d, i) ==
    IF i >= Len(d) THEN << >>
    ELSE LET chunk == Slice(d, i, i + chunk_size)
         IN  [k \in 1..Len(chunk) |-> Xor8(chunk[k], 255)]
             \o transform_chunks(d, i + chunk_size)

transform_with_pattern_104(d) == transform_chunks(d, 0)

\* SmartCompressor.reversible_transform: bytes([b ^ 0xAA for b in data])
reversible_transform(d) == [i \in 1..Len(d) |-> Xor8(d[i], 170)]

\* SmartCompressor.reverse_reversible_transform
reverse_reversible_transform(d) == reversible_transform(d)

(***************************************************************************)
(* Leading zero compression.                                               *)
(***************************************************************************)
max_count == 31

\* the while loop of encode_leading_zeros
RECURSIVE count_leading_zeros(_, _)
count_leading_zeros(d, count) ==
    IF count < Len(d) /\ d[count + 1] = 0 /\ count < max_count
    THEN count_leading_zeros(d, count + 1)
    ELSE count

\* a mutant of encode_leading_zeros: the cap is not applied to the loop, only to the header
RECURSIVE count_all_leading_zeros(_, _)
count_all_leading_zeros(d, count) ==
    IF count < Len(d) /\ d[count + 1] = 0
    THEN count_all_leading_zeros(d, count + 1)
    ELSE count

encode_leading_zeros_uncapped(d) ==
    LET count == count_all_leading_zeros(d, 0)
    IN  <<((count % 32) * 8) % 256>> \o Slice(d, count, Len(d))

encode_leading_zeros(d) ==
    LET count     == count_leading_zeros(d, 0)
        remainder == Slice(d, count, Len(d))
        header    == <<((count % 32) * 8) % 256>>
    IN  header \o remainder

\* a mutant of decode_leading_zeros: the count is read from the low 5 bits
decode_leading_zeros_low(d) ==
    IF d = << >> THEN d
    ELSE Zeros(d[1] % 32) \o Slice(d, 1, Len(d))

decode_leading_zeros(d) ==
    IF d = << >> THEN d
    ELSE LET count   == (d[1] \div 8) % 32
             leading == Zeros(count)
         IN  leading \o Slice(d, 1, Len(d))

(***************************************************************************)
(* Compression steps.  The external compressor is opaque: paq.decompress   *)
(* gives back what paq.compress was given.                                 *)
(***************************************************************************)
\* paq.compress(data)
paq_compress(b) == [paq |-> b]

\* paq.decompress(data), when it does not raise
paq_decompress(p) == p.paq

compress_bytes_paq_xor(d) == paq_compress(encode_leading_zeros(transform_with_pattern(d)))

\* decompress_bytes_paq_xor, when paq.decompress does not raise
decompress_bytes_paq_xor(p) == transform_with_pattern(decode_leading_zeros(paq_decompress(p)))

(***************************************************************************)
(* Text helpers: Python's str.strip, str.isspace, str.splitlines and the   *)
(* three regular expressions of the tokenizer, on sequences of code points.*)
(***************************************************************************)
\* str.isspace / str.strip() / regex \s, for code points below 256
Whitespace == {9, 10, 11, 12, 13, 28, 29, 30, 31, 32, 133, 160}

\* the line boundaries of str.splitlines
LineBreaks == {10, 11, 12, 13, 28, 29, 30, 133, 8232, 8233}

\* the newlines of a file read in text mode (universal newlines)
FileNewlines == {10, 13}

\* [.!?]
SentenceEnd == {46, 33, 63}

\* regex \w, for ASCII: letters, digits and the underscore
WordChars == (48..57) \cup (65..90) \cup (97..122) \cup {95}

RECURSIVE lstrip(_)
lstrip(s) == IF s # << >> /\ Head(s) \in Whitespace THEN lstrip(Tail(s)) ELSE s

RECURSIVE rstrip(_)
rstrip(s) ==
    IF s # << >> /\ s[Len(s)] \in Whitespace THEN rstrip(SubSeq(s, 1, Len(s) - 1)) ELSE s

strip(s) == rstrip(lstrip(s))

isspace(s) == s # << >> /\ \A i \in 1..Len(s) : s[i] \in Whitespace

\* str.splitlines(keepends) with the given boundaries; "\r\n" is one boundary
RECURSIVE split_lines(_, _, _)
split_lines(s, breaks, keepends) ==
    IF s = << >> THEN << >>
    ELSE IF \A i \in 1..Len(s) : s[i] \notin breaks THEN <<s>>
    ELSE LET i == CHOOSE k \in 1..Len(s) :
                      s[k] \in breaks /\ \A j \in 1..(k - 1) : s[j] \notin breaks
             e == IF s[i] = 13 /\ i < Len(s) /\ s[i + 1] = 10 THEN i + 1 ELSE i
             line == SubSeq(s, 1, IF keepends THEN e ELSE i - 1)
         IN  <<line>> \o split_lines(SubSeq(s, e + 1, Len(s)), breaks, keepends)

\* re.split(r'(?<=[.!?]) +', s): the runs of spaces that follow a sentence end
\* are the separators, and are not part of any piece
RECURSIVE split_sentences(_)
split_sentences(s) ==
    LET starts == {i \in 2..Len(s) : s[i] = 32 /\ s[i - 1] \in SentenceEnd}
    IN  IF starts = {} THEN <<s>>
        ELSE LET i == CHOOSE k \in starts : \A m \in starts : k <= m
                 j == CHOOSE k \in i..Len(s) :
                          /\ \A m \in i..k : s[m] = 32
                          /\ k < Len(s) => s[k + 1] # 32
             IN  <<SubSeq(s, 1, i - 1)>> \o split_sentences(SubSeq(s, j + 1, Len(s)))

\* the length of the longest prefix of s whose characters are all in (or all
\* out of) the class of its first character
RunLength(s, class) ==
    CHOOSE n \in 1..Len(s) :
        /\ \A k \in 1..n : (s[k] \in class) = (s[1] \in class)
        /\ n < Len(s) => (s[n + 1] \in class) # (s[1] \in class)

\* re.findall(r'\S+|\s+', s): the maximal runs of whitespace and of non-whitespace
RECURSIVE find_tokens(_)
find_tokens(s) ==
    IF s = << >> THEN << >>
    ELSE LET n == RunLength(s, Whitespace)
         IN  <<SubSeq(s, 1, n)>> \o find_tokens(SubSeq(s, n + 1, Len(s)))

\* re.findall(r'\b\w+\b', s): the maximal runs of word characters
RECURSIVE find_words(_)
find_words(s) ==
    IF s = << >> THEN {}
    ELSE LET n == RunLength(s, WordChars)
             rest == find_words(SubSeq(s, n + 1, Len(s)))
         IN  IF s[1] \in WordChars THEN {SubSeq(s, 1, n)} \cup rest ELSE rest

SeqToSet(q) == {q[i] : i \in 1..Len(q)}

(***************************************************************************)
(* Dictionary handling.                                                    *)
(***************************************************************************)
\* the order of Python strings: by code point, a proper prefix first
LexLess(a, b) ==
    \E k \in 1..(Len(b)) :
        /\ k <= Len(a) + 1
        /\ \A j \in 1..(k - 1) : a[j] = b[j]
        /\ k = Len(a) + 1 \/ a[k] < b[k]

\* sorted(entries)
RECURSIVE sorted(_)
sorted(S) ==
    IF S = {} THEN << >>
    ELSE LET m == CHOOSE x \in S : \A y \in S : x = y \/ LexLess(x, y)
         IN  <<m>> \o sorted(S \ {m})

\* for entry in sorted(entries): f.write(f"{entry}\n")
RECURSIVE write_entries(_)
write_entries(q) ==
    IF q = << >> THEN << >> ELSE Head(q) \o <<10>> \o write_entries(Tail(q))

\* the entries build_multiple_dictionaries extracts for each tier
extract_words(t) == find_words(t)

extract_lines(t) == SeqToSet(split_lines(t, LineBreaks, FALSE))

extract_sentences(t) == SeqToSet(split_sentences(t))

\* build_multiple_dictionaries: the contents of words.txt, lines.txt and
\* sentences.txt (the .paq copies are packed by the external compressor)
build_multiple_dictionaries(t) ==
    [words     |-> write_entries(sorted(extract_words(t))),
     lines     |-> write_entries(sorted(extract_lines(t))),
     sentences |-> write_entries(sorted(extract_sentences(t)))]

max_lines == 16777216

\* load_dictionary on a readable file: dictionary[line.strip()] = idx for every
\* line read whose stripped text is not empty; a later line overwrites an
\* earlier one with the same stripped text
load_dictionary(file) ==
    LET lines == split_lines(file, FileNewlines, TRUE)
        kept  == {i \in 1..Len(lines) : i - 1 < max_lines /\ strip(lines[i]) # << >>}
        last  == {i \in kept : \A j \in kept : strip(lines[j]) = strip(lines[i]) => j <= i}
    IN  [isNone |-> FALSE, items |-> {<<strip(lines[i]), i - 1>> : i \in last}]

\* key in dictionary
Has(d, key) == \E p \in d.items : p[1] = key

\* dictionary[key]
Get(d, key) == (CHOOSE p \in d.items : p[1] = key)[2]

\* {v: k for k, v in dictionary.items()}.get(code, "")
rev_get(d, code) ==
    IF \E p \in d.items : p[2] = code
    THEN (CHOOSE p \in d.items : p[2] = code)[1]
    ELSE << >>

(***************************************************************************)
(* Token stream codec.                                                     *)
(***************************************************************************)
int_to_3bytes(value) ==
    <<(value \div 65536) % 256, (value \div 256) % 256, value % 256>>

\* bytes3_to_int on a buffer of 3 bytes (a shorter one raises IndexError)
bytes3_to_int(b) == b[1] * 65536 + b[2] * 256 + b[3]

\* int.from_bytes(b, 'big'), for a buffer of any length
RECURSIVE from_bytes(_)
from_bytes(b) ==
    IF b = << >> THEN 0 ELSE from_bytes(SubSeq(b, 1, Len(b) - 1)) * 256 + b[Len(b)]

\* n.to_bytes(2, 'big'), for n < 65536 (a larger n raises OverflowError)
to_bytes2(n) == <<(n \div 256) % 256, n % 256>>

\* str.encode('utf-8'), for code points of the Basic Multilingual Plane
RECURSIVE utf8_encode(_)
utf8_encode(s) ==
    IF s = << >> THEN << >>
    ELSE LET c == Head(s)
             b == IF c < 128 THEN <<c>>
                  ELSE IF c < 2048 THEN <<192 + (c \div 64), 128 + (c % 64)>>
                  ELSE <<224 + (c \div 4096), 128 + ((c \div 64) % 64), 128 + (c % 64)>>
         IN  b \o utf8_encode(Tail(s))

Raised == [ok |-> FALSE, text |-> << >>]

\* bytes.decode('utf-8'): the text, or not ok for UnicodeDecodeError
RECURSIVE utf8_decode(_)
utf8_decode(b) ==
    IF b = << >> THEN [ok |-> TRUE, text |-> << >>]
    ELSE LET n   == IF b[1] < 128 THEN 1
                    ELSE IF b[1] \in 194..223 THEN 2
                    ELSE IF b[1] \in 224..239 THEN 3
                    ELSE IF b[1] \in 240..244 THEN 4
                    ELSE 0
             lo  == IF b[1] = 224 THEN 160 ELSE IF b[1] = 240 THEN 144 ELSE 128
             hi  == IF b[1] = 237 THEN 159 ELSE IF b[1] = 244 THEN 143 ELSE 191
             valid == /\ n > 0
                      /\ Len(b) >= n
                      /\ n >= 2 => b[2] \in lo..hi
                      /\ \A k \in 3..n : b[k] \in 128..191
             cp  == IF n = 1 THEN b[1]
                    ELSE IF n = 2 THEN (b[1] - 192) * 64 + (b[2] - 128)
                    ELSE IF n = 3
                         THEN (b[1] - 224) * 4096 + (b[2] - 128) * 64 + (b[3] - 128)
                    ELSE (b[1] - 240) * 262144 + (b[2] - 128) * 4096
                         + (b[3] - 128) * 64 + (b[4] - 128)
         IN  IF ~valid THEN Raised
             ELSE LET rest == utf8_decode(SubSeq(b, n + 1, Len(b)))
                  IN  [ok |-> rest.ok, text |-> <<cp>> \o rest.text]

\* the encoder's result: the bytes appended to result, or not ok when the code raises
Bytes(b) == [ok |-> TRUE, bytes |-> b]

EncodeRaised == [ok |-> FALSE, bytes |-> << >>]

Then(r1, r2) ==
    IF ~r1.ok THEN r1 ELSE IF ~r2.ok THEN r2 ELSE Bytes(r1.bytes \o r2.bytes)

\* a literal token: flag, 2-byte length, the utf-8 bytes
literal_token(flag, token) ==
    LET raw == utf8_encode(token)
    IN  IF Len(raw) >= 65536 THEN EncodeRaised
        ELSE Bytes(<<flag>> \o to_bytes2(Len(raw)) \o raw)

\* the body of "for token in words": a whitespace token, a word of the word
\* dictionary, or a raw token (word_dict.get raises on None)
encode_token(token, wd) ==
    IF isspace(token) THEN literal_token(5, token)
    ELSE IF wd.isNone THEN EncodeRaised
    ELSE IF Has(wd, token) THEN Bytes(<<1>> \o int_to_3bytes(Get(wd, token)))
    ELSE literal_token(0, token)

RECURSIVE encode_tokens(_, _)
encode_tokens(tokens, wd) ==
    IF tokens = << >> THEN Bytes(<< >>)
    ELSE Then(encode_token(Head(tokens), wd), encode_tokens(Tail(tokens), wd))

\* a mutant of encode_sentence: the word tier is tried before the sentence tier
encode_sentence_words_first(sentence, wd, sd) ==
    IF sd.isNone THEN EncodeRaised
    ELSE IF /\ ~wd.isNone
            /\ \E i \in 1..Len(find_tokens(sentence)) : Has(wd, find_tokens(sentence)[i])
    THEN encode_tokens(find_tokens(sentence), wd)
    ELSE IF Has(sd, strip(sentence))
    THEN Bytes(<<2>> \o int_to_3bytes(Get(sd, strip(sentence))))
    ELSE encode_tokens(find_tokens(sentence), wd)

\* the body of "for sentence in sentences" ("in sent_dict" raises on None)
encode_sentence(sentence, wd, sd) ==
    IF sd.isNone THEN EncodeRaised
    ELSE IF Has(sd, strip(sentence))
    THEN Bytes(<<2>> \o int_to_3bytes(Get(sd, strip(sentence))))
    ELSE encode_tokens(find_tokens(sentence), wd)

RECURSIVE encode_sentences(_, _, _)
encode_sentences(sentences, wd, sd) ==
    IF sentences = << >> THEN Bytes(<< >>)
    ELSE Then(encode_sentence(Head(sentences), wd, sd),
              encode_sentences(Tail(sentences), wd, sd))

\* the body of "for line in lines" ("in line_dict" raises on None)
encode_line(line, wd, ld, sd) ==
    IF ld.isNone THEN EncodeRaised
    ELSE IF Has(ld, strip(line))
    THEN Bytes(<<3>> \o int_to_3bytes(Get(ld, strip(line))))
    ELSE encode_sentences(split_sentences(line), wd, sd)

RECURSIVE encode_lines(_, _, _, _)
encode_lines(lines, wd, ld, sd) ==
    IF lines = << >> THEN Bytes(<< >>)
    ELSE Then(encode_line(Head(lines), wd, ld, sd),
              encode_lines(Tail(lines), wd, ld, sd))

compress_text_with_dictionary(t, wd, ld, sd) ==
    encode_lines(split_lines(t, LineBreaks, TRUE), wd, ld, sd)

Text(t) == [ok |-> TRUE, text |-> t]

After(piece, rest) == IF ~rest.ok THEN rest ELSE Text(piece \o rest.text)

\* the while loop of decompress_text_with_dictionary, from offset i
RECURSIVE decode_from(_, _, _, _, _)
decode_from(d, i, wd, ld, sd) ==
    IF i >= Len(d) THEN Text(<< >>)
    ELSE LET flag == d[i + 1]
             j    == i + 1
         IN  IF flag \in {1, 2, 3}
             THEN LET b == Slice(d, j, j + 3)
                  IN  IF Len(b) < 3 THEN Raised
                      ELSE LET code  == bytes3_to_int(b)
                               piece == IF flag = 1 THEN rev_get(wd, code)
                                        ELSE IF flag = 2 THEN rev_get(sd, code)
                                        ELSE rev_get(ld, code) \o <<10>>
                           IN  After(piece, decode_from(d, j + 3, wd, ld, sd))
             ELSE IF flag \in {0, 5}
             THEN LET length == from_bytes(Slice(d, j, j + 2))
                      k      == j + 2
                      piece  == utf8_decode(Slice(d, k, k + length))
                  IN  IF ~piece.ok THEN Raised
                      ELSE After(piece.text, decode_from(d, k + length, wd, ld, sd))
             ELSE decode_from(d, j, wd, ld, sd)

\* decompress_text_with_dictionary: the reverse maps are built first
\* (None.items() raises), then the stream is decoded from offset 0
decompress_text_with_dictionary(d, wd, ld, sd) ==
    IF wd.isNone \/ ld.isNone \/ sd.isNone THEN Raised
    ELSE decode_from(d, 0, wd, ld, sd)

(***************************************************************************)
(* The bytes part of the program: each pure function is applied to a byte  *)
(* string drawn from the bounded inputs, at most twice in a row.           *)
(***************************************************************************)
\* Python's None where a dictionary is expected
None == [isNone |-> TRUE, items |-> {}]

NoCorpus == [words |-> << >>, lines |-> << >>, sentences |-> << >>]

NoFiles == [words |-> << >>, lines |-> << >>, sentences |-> << >>]

Absent == [exists |-> FALSE, content |-> << >>]

File(content) == [exists |-> TRUE, content |-> content]

\* the compressed file before compress_text wrote it
NotWritten == [exists |-> FALSE, content |-> paq_compress(<< >>)]

\* the variables of the text part before anything was built, loaded or encoded
TextIdle(t) ==
    /\ text = t
    /\ corpus = NoCorpus
    /\ files = NoFiles
    /\ word_dict = None /\ line_dict = None /\ sent_dict = None
    /\ encoded = << >>
    /\ decoded = Text(<< >>)

\* the variables of the operations before any operation ran
OpsIdle ==
    /\ compressed_file = NotWritten
    /\ restored_file = Absent
    /\ load_failed = {}
    /\ wrote = FALSE
    /\ codec_ran = FALSE

\* the DictionaryCompressor as constructed, no file given or written
FpIdle ==
    /\ dictionary = {}
    /\ fp_input = << >>
    /\ fp_compressed = NotWritten
    /\ fp_restored = Absent

BytesIdle ==
    /\ data = << >>
    /\ buf = << >>
    /\ applied = << >>

ByteInputs == {Zeros(z) \o t : z \in 0..MaxZeros, t \in SeqsUpTo(ByteSample, MaxTail)}

InitBytes ==
    /\ mode = "bytes"
    /\ pc = "input"
    /\ data \in ByteInputs
    /\ buf = data
    /\ applied = << >>
    /\ TextIdle(<< >>)
    /\ OpsIdle
    /\ FpIdle

NextPc(p) == IF p = "input" THEN "once" ELSE "twice"

ApplyTo(name, result) ==
    /\ mode = "bytes"
    /\ pc \in {"input", "once"}
    /\ buf' = result
    /\ applied' = Append(applied, name)
    /\ pc' = NextPc(pc)
    /\ UNCHANGED <<mode, data, textVars, opsVars, fpVars>>

EncodeLeadingZeros == ApplyTo("encode_leading_zeros", encode_leading_zeros(buf))

DecodeLeadingZeros == ApplyTo("decode_leading_zeros", decode_leading_zeros(buf))

TransformWithPattern == ApplyTo("transform_with_pattern", transform_with_pattern(buf))

TransformWithPattern104 ==
    ApplyTo("transform_with_pattern_104", transform_with_pattern_104(buf))

ReversibleTransform == ApplyTo("reversible_transform", reversible_transform(buf))

ReverseReversibleTransform ==
    ApplyTo("reverse_reversible_transform", reverse_reversible_transform(buf))

NextBytes ==
    \/ EncodeLeadingZeros
    \/ DecodeLeadingZeros
    \/ TransformWithPattern
    \/ TransformWithPattern104
    \/ ReversibleTransform
    \/ ReverseReversibleTransform

SpecBytes == InitBytes /\ [][NextBytes]_vars

(***************************************************************************)
(* The text part of the program: the dictionary files are built, the three *)
(* dictionaries are loaded, the text is encoded and the stream is decoded  *)
(* with the same dictionaries.  Each tier's file is built from the text    *)
(* itself (as compress_text does) or from an empty training corpus.        *)
(***************************************************************************)
\* a b . space newline
Alphabet == {97, 98, 46, 32, 10}

MaxTextLen == 4

Texts == SeqsUpTo(Alphabet, MaxTextLen)

InitText ==
    /\ mode = "text"
    /\ pc = "input"
    /\ BytesIdle
    /\ \E t \in Texts : TextIdle(t)
    /\ OpsIdle
    /\ FpIdle

BuildMultipleDictionaries ==
    /\ mode = "text"
    /\ pc = "input"
    /\ \E cw \in {text, << >>}, cl \in {text, << >>}, cs \in {text, << >>} :
          /\ corpus' = [words |-> cw, lines |-> cl, sentences |-> cs]
          /\ files' = [words     |-> build_multiple_dictionaries(cw).words,
                       lines     |-> build_multiple_dictionaries(cl).lines,
                       sentences |-> build_multiple_dictionaries(cs).sentences]
    /\ pc' = "built"
    /\ UNCHANGED <<mode, bytesVars, text, word_dict, line_dict, sent_dict, encoded,
                   decoded, opsVars, fpVars>>

\* the three load_dictionary calls of compress_text / decompress_binary
LoadDictionaries ==
    /\ mode = "text"
    /\ pc = "built"
    /\ word_dict' = load_dictionary(files.words)
    /\ line_dict' = load_dictionary(files.lines)
    /\ sent_dict' = load_dictionary(files.sentences)
    /\ pc' = "loaded"
    /\ UNCHANGED <<mode, bytesVars, text, corpus, files, encoded, decoded, opsVars, fpVars>>

CompressTextWithDictionary ==
    /\ mode = "text"
    /\ pc = "loaded"
    /\ LET r == compress_text_with_dictionary(text, word_dict, line_dict, sent_dict)
       IN  /\ encoded' = r.bytes
           /\ pc' = IF r.ok THEN "encoded" ELSE "raised"
    /\ UNCHANGED <<mode, bytesVars, text, corpus, files, word_dict, line_dict,
                   sent_dict, decoded, opsVars, fpVars>>

DecompressTextWithDictionary ==
    /\ mode \in {"text", "decode"}
    /\ pc = "encoded"
    /\ decoded' = decompress_text_with_dictionary(encoded, word_dict, line_dict, sent_dict)
    /\ pc' = "decoded"
    /\ UNCHANGED <<mode, bytesVars, text, corpus, files, word_dict, line_dict,
                   sent_dict, encoded, opsVars, fpVars>>

NextText ==
    \/ BuildMultipleDictionaries
    \/ LoadDictionaries
    \/ CompressTextWithDictionary
    \/ DecompressTextWithDictionary

SpecText == InitText /\ [][NextText]_vars

(***************************************************************************)
(* The decoder on arbitrary buffers: decompress_binary hands it whatever   *)
(* the compressed file holds.  The dictionaries are those of DecodeCorpus. *)
(***************************************************************************)
\* "a b", an empty line, "b"
DecodeCorpus == <<97, 32, 98, 10, 10, 98>>

BufBytes == {0, 1, 2, 3, 5, 97}

MaxBufLen == 5

Buffers == SeqsUpTo(BufBytes, MaxBufLen)

InitDecode ==
    /\ mode = "decode"
    /\ pc = "encoded"
    /\ BytesIdle
    /\ text = DecodeCorpus
    /\ corpus = [words |-> text, lines |-> text, sentences |-> text]
    /\ files = build_multiple_dictionaries(text)
    /\ word_dict = load_dictionary(files.words)
    /\ line_dict = load_dictionary(files.lines)
    /\ sent_dict = load_dictionary(files.sentences)
    /\ encoded \in Buffers
    /\ decoded = Text(<< >>)
    /\ OpsIdle
    /\ FpIdle

NextDecode == DecompressTextWithDictionary

SpecDecode == InitDecode /\ [][NextDecode]_vars

(***************************************************************************)
(* The operations compress_text and decompress_binary.  The external       *)
(* compressor may fail; a load_dictionary call returns None when reading   *)
(* its file fails.                                                         *)
(***************************************************************************)
Tiers == {"words", "lines", "sentences"}

\* load_dictionary(filename): None when the file cannot be read
load_or_none(file, fails) == IF fails THEN None ELSE load_dictionary(file)

\* "not dictionary": None and the empty dictionary are both false
falsy(d) == d.isNone \/ d.items = {}

\* a mutant of dictionaries_missing: the sentence dictionary is not tested
dictionaries_missing_two(wd, ld, sd) == falsy(wd) \/ falsy(ld)

\* "if not word_dict or not line_dict or not sent_dict" of compress_text
dictionaries_missing(wd, ld, sd) == falsy(wd) \/ falsy(ld) \/ falsy(sd)

MaxOpsTextLen == 2

OpsTexts == SeqsUpTo(Alphabet, MaxOpsTextLen)

InitOps ==
    /\ mode = "ops"
    /\ pc = "idle"
    /\ BytesIdle
    /\ \E t \in OpsTexts : TextIdle(t)
    /\ OpsIdle
    /\ FpIdle

\* the operation ends without writing its output file
Aborted == wrote' = FALSE /\ UNCHANGED <<compressed_file, restored_file>>

\* compress_text(input_filename, output_filename), for a readable input file
CompressText ==
    /\ mode = "ops"
    /\ pc' = "compress_text"
    /\ files' = build_multiple_dictionaries(text)
    /\ corpus' = [words |-> text, lines |-> text, sentences |-> text]
    /\ \E failing \in SUBSET Tiers, backend_ok \in BOOLEAN :
          LET wd == load_or_none(files'.words, "words" \in failing)
              ld == load_or_none(files'.lines, "lines" \in failing)
              sd == load_or_none(files'.sentences, "sentences" \in failing)
              r  == compress_text_with_dictionary(text, wd, ld, sd)
          IN  /\ word_dict' = wd /\ line_dict' = ld /\ sent_dict' = sd
              /\ load_failed' = failing
              /\ IF dictionaries_missing(wd, ld, sd)
                 THEN Aborted /\ codec_ran' = FALSE /\ UNCHANGED encoded
                 ELSE IF ~r.ok
                 THEN Aborted /\ codec_ran' = FALSE /\ UNCHANGED encoded
                 ELSE /\ codec_ran' = TRUE
                      /\ encoded' = r.bytes
                      /\ IF backend_ok
                         THEN /\ compressed_file' =
                                    [exists |-> TRUE, content |-> compress_bytes_paq_xor(r.bytes)]
                              /\ wrote' = TRUE
                              /\ UNCHANGED restored_file
                         ELSE Aborted
    /\ UNCHANGED <<mode, bytesVars, text, decoded, fpVars>>

\* decompress_binary(input_filename, output_filename); the dictionary files are
\* rewritten from their .paq copies before they are loaded
DecompressBinary ==
    /\ mode = "ops"
    /\ pc' = "decompress_binary"
    /\ \E choice \in {"yes", "no"}, failing \in SUBSET Tiers, backend_ok \in BOOLEAN :
          IF ~compressed_file.exists \/ ~backend_ok
          THEN /\ Aborted
               /\ load_failed' = {} /\ codec_ran' = FALSE
               /\ UNCHANGED <<files, word_dict, line_dict, sent_dict, encoded, decoded>>
          ELSE LET decompressed == decompress_bytes_paq_xor(compressed_file.content)
               IN  IF choice = "yes"
                   THEN LET unpacked == [t \in Tiers |-> paq_decompress(paq_compress(files[t]))]
                            wd == load_or_none(unpacked.words, "words" \in failing)
                            ld == load_or_none(unpacked.lines, "lines" \in failing)
                            sd == load_or_none(unpacked.sentences, "sentences" \in failing)
                            r  == decompress_text_with_dictionary(decompressed, wd, ld, sd)
                        IN  /\ files' = unpacked
                            /\ word_dict' = wd /\ line_dict' = ld /\ sent_dict' = sd
                            /\ load_failed' = failing
                            /\ encoded' = decompressed
                            /\ IF r.ok
                               THEN /\ decoded' = r
                                    /\ codec_ran' = TRUE
                                    /\ restored_file' = File(r.text)
                                    /\ wrote' = TRUE
                                    /\ UNCHANGED compressed_file
                               ELSE /\ Aborted
                                    /\ codec_ran' = FALSE
                                    /\ UNCHANGED decoded
                   ELSE /\ restored_file' = File(decompressed)
                        /\ wrote' = TRUE
                        /\ load_failed' = {} /\ codec_ran' = FALSE
                        /\ UNCHANGED <<compressed_file, files, word_dict, line_dict,
                                       sent_dict, encoded, decoded>>
    /\ UNCHANGED <<mode, bytesVars, text, corpus, fpVars>>

NextOps == CompressText \/ DecompressBinary

SpecOps == InitOps /\ [][NextOps]_vars

(***************************************************************************)
(* Black_Hole_104.py, DictionaryCompressor: lines are replaced by the      *)
(* first 8 bytes of the SHA-256 of a dictionary entry, or by a checksum.   *)
(***************************************************************************)
\* the words the dictionary files can hold
FpWords == {<<97>>, <<98>>, <<108, 105>>, <<119>>, <<97, 32, 98>>}

\* hashlib.sha256(data.encode('utf-8')).digest()[:8], tabulated for FpWords
sha256_hash(word) ==
    CASE word = <<97>> -> <<202, 151, 129, 18, 202, 27, 189, 202>>   \* "a"
      [] word = <<98>> -> <<62, 35, 232, 22, 0, 57, 89, 74>>   \* "b"
      [] word = <<108, 105>> -> <<0, 169, 228, 37, 90, 91, 99, 6>>   \* "li"
      [] word = <<119>> -> <<80, 231, 33, 228, 156, 1, 63, 0>>   \* "w"
      [] word = <<97, 32, 98>> -> <<200, 104, 122, 8, 170, 93, 110, 210>>   \* "a b"

prime == 2147483647

\* sum(ord(c) for c in word)
RECURSIVE sum_ord(_)
sum_ord(word) == IF word = << >> THEN 0 ELSE Head(word) + sum_ord(Tail(word))

\* value.to_bytes(length, 'big')
RECURSIVE to_bytes(_, _)
to_bytes(value, length) ==
    IF length = 0 THEN << >>
    ELSE to_bytes(value \div 256, length - 1) \o <<value % 256>>

\* total ^ prime, byte by byte on the 8-byte big-endian forms of the operands
xor_prime(total) ==
    from_bytes([i \in 1..8 |-> Xor8(to_bytes(total, 8)[i], to_bytes(prime, 8)[i])])

xor_prime_fallback(word) ==
    LET total       == sum_ord(word)
        transformed == xor_prime(total)
    IN  to_bytes(transformed, 8)

\* str.split(): the maximal runs of non-whitespace
RECURSIVE non_space(_)
non_space(tokens) ==
    IF tokens = << >> THEN << >>
    ELSE IF isspace(Head(tokens)) THEN non_space(Tail(tokens))
    ELSE <<Head(tokens)>> \o non_space(Tail(tokens))

split(line) == non_space(find_tokens(line))

\* re.split(r'[.!?]', line): the pieces between the punctuation characters
RECURSIVE split_punct(_)
split_punct(line) ==
    IF \A i \in 1..Len(line) : line[i] \notin SentenceEnd THEN <<line>>
    ELSE LET i == CHOOSE k \in 1..Len(line) :
                      line[k] \in SentenceEnd /\ \A j \in 1..(k - 1) : line[j] \notin SentenceEnd
         IN  <<SubSeq(line, 1, i - 1)>> \o split_punct(SubSeq(line, i + 1, Len(line)))

\* the first candidate that, stripped, is not empty and is in the dictionary
\* (the words of str.split() are stripped and not empty already); << >> when
\* there is none
RECURSIVE first_match(_, _)
first_match(candidates, dict) ==
    IF candidates = << >> THEN << >>
    ELSE IF strip(Head(candidates)) # << >> /\ strip(Head(candidates)) \in dict
    THEN strip(Head(candidates))
    ELSE first_match(Tail(candidates), dict)

\* match_in_dictionary(line): the whole line, then its words, then its
\* punctuation-split pieces; the checksum of the whole line when nothing matches
match_in_dictionary(line, dict) ==
    LET stripped == strip(line)
        w == first_match(split(stripped), dict)
        f == first_match(split_punct(stripped), dict)
    IN  IF stripped \in dict THEN [encoded |-> sha256_hash(stripped), is_dict |-> TRUE]
        ELSE IF w # << >> THEN [encoded |-> sha256_hash(w), is_dict |-> TRUE]
        ELSE IF f # << >> THEN [encoded |-> sha256_hash(f), is_dict |-> TRUE]
        ELSE [encoded |-> xor_prime_fallback(stripped), is_dict |-> FALSE]

\* a mutant of lstrip_zeros: zero bytes are stripped at both ends
RECURSIVE strip_zeros(_)
strip_zeros(b) ==
    IF b = << >> THEN b
    ELSE IF Head(b) = 0 THEN strip_zeros(Tail(b))
    ELSE IF b[Len(b)] = 0 THEN strip_zeros(SubSeq(b, 1, Len(b) - 1))
    ELSE b

\* encoded.lstrip(b'\x00')
RECURSIVE lstrip_zeros(_)
lstrip_zeros(b) ==
    IF b = << >> THEN b
    ELSE IF Head(b) = 0 THEN lstrip_zeros(Tail(b))
    ELSE b

\* the record compress_file appends for one line: flag, lz, the stripped code
encode_record(line, dict) ==
    LET m    == match_in_dictionary(line, dict)
        flag == IF m.is_dict THEN 1 ELSE 0
        lz   == Len(m.encoded) - Len(lstrip_zeros(m.encoded))
    IN  <<flag, lz>> \o lstrip_zeros(m.encoded)

RECURSIVE encode_records(_, _)
encode_records(lines, dict) ==
    IF lines = << >> THEN << >>
    ELSE encode_record(Head(lines), dict) \o encode_records(Tail(lines), dict)

\* f.readlines() of a text file: the lines with their terminators
readlines(content) == split_lines(content, FileNewlines, TRUE)

\* compress_file: output_data before paq.compress
compress_file(content, dict) == encode_records(readlines(content), dict)

\* str(n) for n >= 0, as code points
RECURSIVE int_str(_)
int_str(n) == IF n < 10 THEN <<48 + n>> ELSE int_str(n \div 10) \o <<48 + (n % 10)>>

\* "[UNKNOWN]"
UNKNOWN == <<91, 85, 78, 75, 78, 79, 87, 78, 93>>

\* f"[FALLBACK:{code}]"
FALLBACK(code) == <<91, 70, 65, 76, 76, 66, 65, 67, 75, 58>> \o int_str(code) \o <<93>>

\* the result of decompress_file's loop: the lines, or not ok when the loop
\* raises or does not end
Lines(result) == [ok |-> TRUE, lines |-> result]

FpRaised == [ok |-> FALSE, lines |-> << >>]

\* the words the scan "for word in self.dictionary" can stop at: the
\* iteration order of a set is arbitrary, any entry with the code may come first
scan_dictionary(compressed, dict) ==
    IF \E word \in dict : sha256_hash(word) = compressed
    THEN {word \in dict : sha256_hash(word) = compressed}
    ELSE {UNKNOWN}

\* the while loop of decompress_file, from offset i: the possible results
RECURSIVE decode_records(_, _, _)
decode_records(d, i, dict) ==
    IF i >= Len(d) THEN {Lines(<< >>)}
    ELSE IF i + 1 >= Len(d) THEN {FpRaised}
    ELSE LET flag       == d[i + 1]
             lz         == d[i + 2]
             chunk_len  == 8 - lz
             chunk      == Slice(d, i, i + 2 + chunk_len)
             compressed == Zeros(lz) \o Slice(chunk, 2, Len(chunk))
             pieces     == IF flag = 1 THEN scan_dictionary(compressed, dict)
                           ELSE {FALLBACK(from_bytes(compressed))}
         IN  IF 2 + chunk_len <= 0 THEN {FpRaised}
             ELSE {IF rest.ok THEN Lines(<<piece>> \o rest.lines) ELSE rest :
                      piece \in pieces, rest \in decode_records(d, i + 2 + chunk_len, dict)}

\* out.write(line + '\n') for each line of result
RECURSIVE write_lines(_)
write_lines(result) ==
    IF result = << >> THEN << >>
    ELSE Head(result) \o <<10>> \o write_lines(Tail(result))

\* load_full_dictionary: the stripped, non-empty lines of the dictionary files
load_full_dictionary(file_lines) == {strip(l) : l \in file_lines} \ {<< >>}

\* the lines the dictionary files can hold: the words, "b" with blanks around
\* it, and an empty line
DictFileLines == (FpWords \ {<<98>>}) \cup {<<32, 98, 32>>, << >>}

\* the lines the input file is made of; the last has no terminator
FpLineSample ==
    {<<97, 10>>,
     <<32, 98, 32, 10>>,
     <<108, 105, 10>>,
     <<119, 10>>,
     <<97, 32, 98, 10>>,
     <<98, 32, 97, 10>>,
     <<97, 46, 10>>,
     <<122, 10>>,
     <<10>>,
     <<108, 105>>}

MaxFpLines == 2

RECURSIVE Concat(_)
Concat(ss) == IF ss = << >> THEN << >> ELSE Head(ss) \o Concat(Tail(ss))

FpInputs == {Concat(ls) : ls \in SeqsUpTo(FpLineSample, MaxFpLines)}

InitFp ==
    /\ mode = "fp"
    /\ pc = "constructed"
    /\ BytesIdle
    /\ TextIdle(<< >>)
    /\ OpsIdle
    /\ dictionary = {}
    /\ fp_input \in FpInputs
    /\ fp_compressed = NotWritten
    /\ fp_restored = Absent

\* load_full_dictionary(), before compressing or in the run that decompresses
LoadFullDictionary ==
    /\ mode = "fp"
    /\ pc \in {"constructed", "compressed"}
    /\ \E file_lines \in SUBSET DictFileLines :
          dictionary' = load_full_dictionary(file_lines)
    /\ pc' = IF pc = "constructed" THEN "loaded" ELSE "reloaded"
    /\ UNCHANGED <<mode, bytesVars, textVars, opsVars, fp_input, fp_compressed, fp_restored>>

\* compress_file(input_file, output_file); nothing is written when paq raises.
\* For an empty input file the ratio raises ZeroDivisionError, after the
\* output file was written.
CompressFile ==
    /\ mode = "fp"
    /\ pc \in {"constructed", "loaded"}
    /\ \E backend_ok \in BOOLEAN :
          IF backend_ok
          THEN fp_compressed' = File(paq_compress(compress_file(fp_input, dictionary)))
          ELSE UNCHANGED fp_compressed
    /\ pc' = "compressed"
    /\ UNCHANGED <<mode, bytesVars, textVars, opsVars, dictionary, fp_input, fp_restored>>

\* decompress_file(input_file, output_file); nothing is written when the
\* input file is missing, paq raises or the loop raises
DecompressFile ==
    /\ mode = "fp"
    /\ pc \in {"compressed", "reloaded"}
    /\ \E backend_ok \in BOOLEAN :
          IF fp_compressed.exists /\ backend_ok
          THEN \E r \in decode_records(paq_decompress(fp_compressed.content), 0, dictionary) :
                  IF r.ok THEN fp_restored' = File(write_lines(r.lines))
                  ELSE UNCHANGED fp_restored
          ELSE UNCHANGED fp_restored
    /\ pc' = IF pc = "compressed" THEN "decompressed" ELSE "decompressed_reloaded"
    /\ UNCHANGED <<mode, bytesVars, textVars, opsVars, dictionary, fp_input, fp_compressed>>

NextFp ==
    \/ LoadFullDictionary
    \/ CompressFile
    \/ DecompressFile

SpecFp == InitFp /\ [][NextFp]_vars

Init == InitBytes \/ InitText \/ InitDecode \/ InitOps \/ InitFp

Next == NextBytes \/ NextText \/ NextDecode \/ NextOps \/ NextFp

Spec == Init /\ [][Next]_vars

(***************************************************************************)
(* Claims about the byte transform pipeline, checked under SpecBytes.      *)
(***************************************************************************)
\* the length of the run of leading 0x00 bytes of d
LeadingZeroRun(d) ==
    CHOOSE n \in 0..Len(d) :
        /\ \A i \in 1..n : d[i] = 0
        /\ n < Len(d) => d[n + 1] # 0

EncodedOnce == mode = "bytes" /\ applied = <<"encode_leading_zeros">>

EncodedThenDecoded ==
    mode = "bytes" /\ applied = <<"encode_leading_zeros", "decode_leading_zeros">>

\* C2: for every byte string whose run of leading zero bytes has length 0..31
\* (the empty string and all-zero strings included), encode_leading_zeros emits
\* the header byte count << 3, whose low 3 bits are zero, and
\* decode_leading_zeros(encode_leading_zeros(x)) = x.
C2_LeadingZeroRoundTrip ==
    LeadingZeroRun(data) <= 31 =>
        /\ EncodedOnce =>
              /\ Len(buf) = 1 + Len(data) - LeadingZeroRun(data)
              /\ buf[1] = LeadingZeroRun(data) * 8
              /\ buf[1] % 8 = 0
        /\ EncodedThenDecoded => buf = data

C2_Witness ==
    /\ EncodedThenDecoded
    /\ LeadingZeroRun(data) = 31
    /\ Len(data) > 31

\* C3 as stated: for every byte string whose run of leading zero bytes has
\* length 32 or more, decode_leading_zeros(encode_leading_zeros(x)) differs from x.
C3_RoundTripLossy ==
    (EncodedThenDecoded /\ LeadingZeroRun(data) >= 32) => buf # data

\* C3 as amended: for a run of 32 or more only the count saturates: the header
\* is 31 << 3, exactly the first 31 zero bytes are removed, the other zero
\* bytes stay in the body, and the round trip reproduces x exactly.
C3_SaturatedCountRoundTrip ==
    LeadingZeroRun(data) >= 32 =>
        /\ EncodedOnce => buf = <<248>> \o SubSeq(data, 32, Len(data))
        /\ EncodedThenDecoded => buf = data

C3_Witness ==
    /\ EncodedThenDecoded
    /\ LeadingZeroRun(data) >= 32
    /\ Len(data) > LeadingZeroRun(data)

FFTransforms == {"transform_with_pattern", "transform_with_pattern_104"}

AATransforms == {"reversible_transform", "reverse_reversible_transform"}

\* C8: applying the XOR transform with the same mask twice (0xFF in both
\* transform_with_pattern functions, 0xAA in reversible_transform) returns the
\* input, and every application keeps the length of its input.
C8_XorInvolution ==
    mode = "bytes" =>
        /\ (\A i \in 1..Len(applied) : applied[i] \in FFTransforms \cup AATransforms)
              => Len(buf) = Len(data)
        /\ (Len(applied) = 2 /\ applied[1] \in FFTransforms /\ applied[2] \in FFTransforms)
              => buf = data
        /\ (Len(applied) = 2 /\ applied[1] \in AATransforms /\ applied[2] \in AATransforms)
              => buf = data

C8_Witness ==
    /\ mode = "bytes"
    /\ applied = <<"transform_with_pattern_104", "transform_with_pattern_104">>
    /\ Len(data) > chunk_size
    /\ \E i \in 1..Len(data) : data[i] = 1

(***************************************************************************)
(* Claims about the tokenizer and the token stream codec, checked under    *)
(* SpecText (C1, C5, C6, C7) and SpecDecode (C4, C9).                      *)
(***************************************************************************)
TextLines == split_lines(text, LineBreaks, TRUE)

SentenceResolves(sentence) ==
    \/ Has(sent_dict, strip(sentence))
    \/ \A tok \in SeqToSet(find_tokens(sentence)) : isspace(tok) \/ Has(word_dict, tok)

LineResolves(line) ==
    \/ Has(line_dict, strip(line))
    \/ \A sentence \in SeqToSet(split_sentences(line)) : SentenceResolves(sentence)

\* no segment of the text falls back to a raw literal: every line, sentence or
\* word the encoder looks up is an entry of the dictionaries
AllSegmentsResolve == \A line \in SeqToSet(TextLines) : LineResolves(line)

\* C1: for every text whose segments all resolve to an ID of the dictionaries,
\* decoding the encoded text with the same dictionaries gives back the text
\* exactly.
C1_TextRoundTrip ==
    (mode = "text" /\ pc = "decoded" /\ AllSegmentsResolve)
        => (decoded.ok /\ decoded.text = text)

\* the buffer holds, from offset i on, a token whose length field, literal
\* payload or 3-byte id extends past the end of the buffer
RECURSIVE TruncatedFrom(_, _)
TruncatedFrom(d, i) ==
    IF i >= Len(d) THEN FALSE
    ELSE IF d[i + 1] \in {1, 2, 3}
         THEN i + 4 > Len(d) \/ TruncatedFrom(d, i + 4)
    ELSE IF d[i + 1] \in {0, 5}
         THEN \/ i + 3 > Len(d)
              \/ i + 3 + d[i + 2] * 256 + d[i + 3] > Len(d)
              \/ TruncatedFrom(d, i + 3 + d[i + 2] * 256 + d[i + 3])
    ELSE TruncatedFrom(d, i + 1)

\* C4: decoding a buffer in which some token's length field, literal payload
\* or id field would extend past the end of the buffer fails with an error.
C4_MalformedStreamRejected ==
    (mode = "decode" /\ pc = "decoded" /\ TruncatedFrom(encoded, 0)) => ~decoded.ok

IsOneLine(t) == t # << >> /\ \A i \in 1..Len(t) : t[i] \notin LineBreaks

\* C5: a line that is an entry of the line dictionary with id k is encoded as
\* the 4 bytes 3, k (3 bytes, big endian), and decoding these 4 bytes gives
\* back the line exactly as it was given to the encoder.
C5_LineTierHit ==
    (mode = "text" /\ IsOneLine(text) /\ Has(line_dict, text)) =>
        /\ pc \in {"encoded", "decoded"} =>
              /\ Len(encoded) = 4
              /\ encoded[1] = 3
              /\ encoded[2] * 65536 + encoded[3] * 256 + encoded[4] = Get(line_dict, text)
        /\ pc = "decoded" => (decoded.ok /\ decoded.text = text)

NoLineOrSentenceHit ==
    \A line \in SeqToSet(TextLines) :
        /\ ~Has(line_dict, strip(line))
        /\ \A sentence \in SeqToSet(split_sentences(line)) : ~Has(sent_dict, strip(sentence))

\* the token C6 expects for one maximal run of whitespace or non-whitespace
ExpectedToken(run) ==
    IF isspace(run) THEN <<5, Len(run) \div 256, Len(run) % 256>> \o run
    ELSE IF Has(word_dict, run) THEN <<1>> \o int_to_3bytes(Get(word_dict, run))
    ELSE <<0, Len(run) \div 256, Len(run) % 256>> \o run

RECURSIVE ExpectedStream(_)
ExpectedStream(runs) ==
    IF runs = << >> THEN << >>
    ELSE ExpectedToken(Head(runs)) \o ExpectedStream(Tail(runs))

RECURSIVE ExpectedLines(_)
ExpectedLines(lines) ==
    IF lines = << >> THEN << >>
    ELSE ExpectedStream(find_tokens(Head(lines))) \o ExpectedLines(Tail(lines))

\* C6: for a text with no line hit and no sentence hit the encoder emits, in
\* order, one token per maximal run of whitespace or non-whitespace of each
\* line (Whitespace, DictWord or RawLiteral), and decoding gives back the text.
C6_WordWhitespaceTier ==
    (mode = "text" /\ pc \in {"encoded", "decoded"} /\ NoLineOrSentenceHit) =>
        /\ encoded = ExpectedLines(TextLines)
        /\ pc = "decoded" => (decoded.ok /\ decoded.text = text)

\* the number of entries of S that sort before e
Rank(e, S) == Cardinality({x \in S : LexLess(x, e)})

DenseRanked(d, S) == ~d.isNone /\ d.items = {<<e, Rank(e, S)>> : e \in S}

\* C7: after build_multiple_dictionaries and load_dictionary, each tier's
\* dictionary maps every unique entry extracted from its corpus to the entry's
\* rank in sorted order, so the ids are exactly 0..N-1.
C7_DenseSortedRankIds ==
    (mode = "text" /\ pc = "loaded") =>
        /\ DenseRanked(word_dict, extract_words(corpus.words))
        /\ DenseRanked(line_dict, extract_lines(corpus.lines))
        /\ DenseRanked(sent_dict, extract_sentences(corpus.sentences))

TierDict(flag) == IF flag = 1 THEN word_dict ELSE IF flag = 2 THEN sent_dict ELSE line_dict

StartsWithUnknownId ==
    /\ Len(encoded) >= 4
    /\ encoded[1] \in {1, 2, 3}
    /\ \A p \in TierDict(encoded[1]).items :
          p[2] # encoded[2] * 65536 + encoded[3] * 256 + encoded[4]

\* C9: a dictionary token (flag 1, 2 or 3) whose id is absent from the tier's
\* reverse map does not fail: it adds nothing to the output, and the output is
\* what decoding the rest of the stream gives.
C9_UnknownIdEmptyString ==
    (mode = "decode" /\ pc = "decoded" /\ StartsWithUnknownId) =>
        decoded = decompress_text_with_dictionary(SubSeq(encoded, 5, Len(encoded)),
                                                  word_dict, line_dict, sent_dict)

(***************************************************************************)
(* Claims about the operations, checked under SpecOps.                     *)
(***************************************************************************)
\* C10: whenever load_dictionary returned None for one of the three tier
\* files, the compress_text or decompress_binary operation ends without
\* writing its output file and without the encoder or decoder having produced
\* anything from the partially loaded dictionaries.
C10_LoadFailureAborts ==
    /\ [][(mode' = "ops" /\ load_failed' # {}) =>
            /\ ~wrote' /\ ~codec_ran'
            /\ compressed_file' = compressed_file
            /\ restored_file' = restored_file]_vars
    /\ []((mode = "ops" /\ codec_ran) =>
            (~word_dict.isNone /\ ~line_dict.isNone /\ ~sent_dict.isNone))

C10_Witness ==
    /\ mode = "ops"
    /\ pc = "decompress_binary"
    /\ compressed_file.exists
    /\ load_failed = {"lines"}
    /\ ~wrote

(***************************************************************************)
(* C11: the tiers are tried coarsest first.                                *)
(***************************************************************************)
\* a dictionary token: the flag and the id in 3 bytes, big endian
IdToken(flag, k) == <<flag, k \div 65536, (k \div 256) % 256, k % 256>>

\* what C11 expects for one sentence of a line that missed the line tier
ExpectedSentence(sentence) ==
    IF Has(sent_dict, strip(sentence))
    THEN IdToken(2, Get(sent_dict, strip(sentence)))
    ELSE ExpectedStream(find_tokens(sentence))

RECURSIVE ExpectedSentences(_)
ExpectedSentences(sentences) ==
    IF sentences = << >> THEN << >>
    ELSE ExpectedSentence(Head(sentences)) \o ExpectedSentences(Tail(sentences))

\* what C11 expects for one line
ExpectedLine(line) ==
    IF Has(line_dict, strip(line))
    THEN IdToken(3, Get(line_dict, strip(line)))
    ELSE ExpectedSentences(split_sentences(line))

RECURSIVE ExpectedTiered(_)
ExpectedTiered(lines) ==
    IF lines = << >> THEN << >>
    ELSE ExpectedLine(Head(lines)) \o ExpectedTiered(Tail(lines))

\* C11: the encoded stream is, line by line, one DictLine token alone when the
\* trimmed line is in the line dictionary; otherwise, sentence by sentence, one
\* DictSentence token alone when the trimmed sentence is in the sentence
\* dictionary, even if its words are in the word dictionary; word, whitespace
\* and raw tokens appear only for a sentence that missed in a line that missed.
C11_CoarsestTierPriority ==
    (mode = "text" /\ pc \in {"encoded", "decoded"}) =>
        encoded = ExpectedTiered(TextLines)

\* a line missed the line tier, one of its sentences hit the sentence tier and
\* a word of that sentence is in the word dictionary: one DictSentence token
SentenceHitOverWords(line) ==
    /\ ~Has(line_dict, strip(line))
    /\ \E i \in 1..Len(split_sentences(line)) :
          LET sentence == split_sentences(line)[i]
          IN  /\ Has(sent_dict, strip(sentence))
              /\ \E j \in 1..Len(find_tokens(sentence)) :
                    Has(word_dict, find_tokens(sentence)[j])

C11_Witness ==
    /\ mode = "text"
    /\ pc = "encoded"
    /\ \E line \in SeqToSet(TextLines) : SentenceHitOverWords(line)
    /\ \E i \in 1..Len(encoded) : encoded[i] = 2

(***************************************************************************)
(* C12: the fingerprint mode of DictionaryCompressor, under SpecFp.        *)
(***************************************************************************)
\* the lines of the input file, trimmed
RECURSIVE Trimmed(_)
Trimmed(lines) ==
    IF lines = << >> THEN << >> ELSE <<strip(Head(lines))>> \o Trimmed(Tail(lines))

InputLines == Trimmed(readlines(fp_input))

AllHit == \A i \in 1..Len(InputLines) : InputLines[i] \in dictionary

DistinctFingerprints ==
    \A w1 \in dictionary, w2 \in dictionary : sha256_hash(w1) = sha256_hash(w2) => w1 = w2

\* the number of leading zero bytes of an 8-byte code
LeadingZeros(code) ==
    CHOOSE n \in 0..Len(code) :
        /\ \A i \in 1..n : code[i] = 0
        /\ n < Len(code) => code[n + 1] # 0

\* a record: the flag, the count of leading zero bytes, the other bytes of the code
Framed(flag, code) ==
    <<flag, LeadingZeros(code)>> \o SubSeq(code, LeadingZeros(code) + 1, Len(code))

RECURSIVE HitRecords(_)
HitRecords(lines) ==
    IF lines = << >> THEN << >>
    ELSE Framed(1, sha256_hash(Head(lines))) \o HitRecords(Tail(lines))

\* the records of a stream read on record boundaries: flag, count, 8 - count bytes
RECURSIVE Records(_)
Records(stream) ==
    IF Len(stream) < 2 THEN << >>
    ELSE LET n == 2 + (8 - stream[2])
         IN  <<[flag |-> stream[1],
                code |-> Zeros(stream[2]) \o SubSeq(stream, 3, Min(n, Len(stream)))]>>
             \o Records(SubSeq(stream, n + 1, Len(stream)))

\* the output line C12 expects for one record
MarkerOrEntry(record) ==
    IF record.flag = 1
    THEN IF \E w \in dictionary : sha256_hash(w) = record.code
         THEN CHOOSE w \in dictionary : sha256_hash(w) = record.code
         ELSE UNKNOWN
    ELSE FALLBACK(from_bytes(record.code))

RECURSIVE OutputOf(_)
OutputOf(records) ==
    IF records = << >> THEN << >>
    ELSE MarkerOrEntry(Head(records)) \o <<10>> \o OutputOf(Tail(records))

RECURSIVE OneLineEach(_)
OneLineEach(lines) ==
    IF lines = << >> THEN << >> ELSE Head(lines) \o <<10>> \o OneLineEach(Tail(lines))

FpStream == paq_decompress(fp_compressed.content)

Decompressed == pc \in {"decompressed", "decompressed_reloaded"} /\ fp_restored.exists

\* C12: when every trimmed input line is an entry of the dictionary and the
\* fingerprints of the entries are pairwise distinct, compress_file writes one
\* record per line (flag 1, the count of leading zero bytes, the 8 - count other
\* bytes of the fingerprint), the decoder reads the stream on these boundaries
\* without failing, and decompress_file writes the trimmed input lines, one per
\* line, in order.  For any compressed file, a hit record whose fingerprint no
\* entry has is written as [UNKNOWN] and a fallback record as [FALLBACK:code].
C12_FingerprintAllHit ==
    /\ (mode = "fp" /\ pc \in {"compressed", "decompressed"} /\ fp_compressed.exists
          /\ AllHit /\ DistinctFingerprints) =>
            /\ FpStream = HitRecords(InputLines)
            /\ \A r \in decode_records(FpStream, 0, dictionary) :
                  r.ok /\ r.lines = InputLines
            /\ (pc = "decompressed" /\ fp_restored.exists) =>
                  fp_restored.content = OneLineEach(InputLines)
    /\ (mode = "fp" /\ Decompressed /\ DistinctFingerprints) =>
            /\ Len(Records(FpStream)) = Len(InputLines)
            /\ fp_restored.content = OutputOf(Records(FpStream))

\* two lines were compressed and restored: one is trimmed, one has a
\* fingerprint that starts with a zero byte
C12_Witness ==
    /\ mode = "fp"
    /\ pc = "decompressed"
    /\ fp_restored.exists
    /\ AllHit
    /\ Len(InputLines) = 2
    /\ \E i \in 1..2 : Head(sha256_hash(InputLines[i])) = 0
    /\ \E i \in 1..2 : Head(readlines(fp_input)[i]) = 32

\* a restored file with the marker of an unknown fingerprint and a placeholder
\* of a fallback code
UnknownAndFallbackWritten ==
    /\ mode = "fp"
    /\ Decompressed
    /\ \E i \in 1..Len(Records(FpStream)), j \in 1..Len(Records(FpStream)) :
          /\ Records(FpStream)[i].flag = 1
          /\ MarkerOrEntry(Records(FpStream)[i]) = UNKNOWN
          /\ Records(FpStream)[j].flag = 0

====
